---- MODULE Spec2Model ----
(***************************************************************************)
(* A model of esmvalcore/preprocessor/_io.py: loading, attribute           *)
(* unification, concatenation with time-overlap resolution, saving and     *)
(* metadata writing.                                                       *)
(*                                                                         *)
(* A cube (fragment) is a record [time, attrs]: time is the set of points  *)
(* of its time coordinate ({} when the cube has no time coordinate; a      *)
(* DimCoord is strictly monotonic, so a set of integers carries it) and    *)
(* attrs is its attribute map.                                             *)
(***************************************************************************)
EXTENDS Integers, Sequences, FiniteSets, TLC

VARIABLES
    cpc, cubes, concatenated, overlapIn, overlapOut, ret, err,
    upc, ucubes, uprev, uruns,
    fsdirs, fsfiles, br,
    mpc, products, write_ncl, manifests, mwrites, nclfiles, output_files,
    lpc, lfile, lraw, lcallback, lret, lerr

concatVars == <<cpc, cubes, concatenated, overlapIn, overlapOut, ret, err>>
unifyVars == <<upc, ucubes, uprev, uruns>>
saveVars == <<fsdirs, fsfiles, br>>
metaVars == <<mpc, products, write_ncl, manifests, mwrites, nclfiles, output_files>>
loadVars == <<lpc, lfile, lraw, lcallback, lret, lerr>>
vars == <<concatVars, unifyVars, saveVars, metaVars, loadVars>>
concatOthers == <<unifyVars, saveVars, metaVars, loadVars>>
unifyOthers == <<concatVars, saveVars, metaVars, loadVars>>
saveOthers == <<concatVars, unifyVars, metaVars, loadVars>>
metaOthers == <<concatVars, unifyVars, saveVars, loadVars>>
loadOthers == <<concatVars, unifyVars, saveVars, metaVars>>

(***************************************************************************)
(* Bounds of the model.                                                    *)
(***************************************************************************)
MaxTime == 3
PointsPerDay == 2
MaxCubes == 2
MaxUCubes == 3
MaxRuns == 2
MaxSaveCubes == 2
MaxProducts == 3
MaxRaw == 2

TimePoints == 0..MaxTime

Min(S) == CHOOSE x \in S : \A y \in S : x <= y
Max(S) == CHOOSE x \in S : \A y \in S : y <= x

SeqsUpTo(S, n) == UNION {[1..k -> S] : k \in 0..n}

EmptyMap == [k \in {} |-> 0]

(***************************************************************************)
(* Attribute values.  A string is the sequence of its ';'-separated        *)
(* components, a number is kept apart from its text: str(nan) is the       *)
(* string "nan", which is not the number.                                  *)
(***************************************************************************)
Str(comps) == [kind |-> "str", comps |-> comps]
Num(text) == [kind |-> "num", comps |-> <<text>>]
NaN == Num("nan")

\* str(val)
str(val) == Str(val.comps)

\* np.array_equal(a, b): elementwise ==, so a NaN equals nothing, itself included
array_equal(a, b) == a = b /\ a # NaN

\* '{};{}'.format(str(a), str(b))
format_join(a, b) == Str(str(a).comps \o str(b).comps)

(***************************************************************************)
(* _fix_cube_attributes                                                    *)
(***************************************************************************)
\* the value the loop over the cubes leaves in attributes[attr]; has says
\* whether attr is already in attributes, acc is attributes[attr]
RECURSIVE unify_attr(_, _, _, _, _)
unify_attr(cs, i, attr, has, acc) ==
    IF i > Len(cs) THEN acc
    ELSE IF attr \notin DOMAIN cs[i].attrs THEN unify_attr(cs, i + 1, attr, has, acc)
    ELSE LET val == cs[i].attrs[attr] IN
         IF ~has THEN unify_attr(cs, i + 1, attr, TRUE, val)
         ELSE IF ~array_equal(val, acc)
              THEN unify_attr(cs, i + 1, attr, TRUE, format_join(acc, val))
              ELSE unify_attr(cs, i + 1, attr, TRUE, acc)

unified_attributes(cs) ==
    [attr \in UNION {DOMAIN cs[i].attrs : i \in 1..Len(cs)} |->
        unify_attr(cs, 1, attr, FALSE, NaN)]

fix_cube_attributes(cs) ==
    [i \in 1..Len(cs) |-> [cs[i] EXCEPT !.attrs = unified_attributes(cs)]]

(***************************************************************************)
(* The cube library's structural concatenation (iris.cube.CubeList         *)
(* .concatenate): every cube registers with the first proto-cube whose     *)
(* members have the same metadata and time extents that do not overlap     *)
(* its own, or starts a new proto-cube; repeated until nothing changes.    *)
(***************************************************************************)
HasTime(c) == c.time # {}

IrisFits(c, proto) ==
    /\ HasTime(c)
    /\ \A j \in 1..Len(proto) :
          /\ HasTime(proto[j])
          /\ proto[j].attrs = c.attrs
          /\ \/ Max(proto[j].time) < Min(c.time)
             \/ Max(c.time) < Min(proto[j].time)

IrisRegister(protos, c) ==
    LET fit == {k \in 1..Len(protos) : IrisFits(c, protos[k])} IN
    IF fit = {} THEN Append(protos, <<c>>)
    ELSE [protos EXCEPT ![Min(fit)] = Append(@, c)]

RECURSIVE IrisRegisterAll(_, _, _)
IrisRegisterAll(cs, i, protos) ==
    IF i > Len(cs) THEN protos
    ELSE IrisRegisterAll(cs, i + 1, IrisRegister(protos, cs[i]))

IrisProtoCube(proto) ==
    [time |-> UNION {proto[j].time : j \in 1..Len(proto)}, attrs |-> proto[1].attrs]

RECURSIVE IrisConcatenate(_)
IrisConcatenate(cs) ==
    LET protos == IrisRegisterAll(cs, 1, <<>>)
        res == [k \in 1..Len(protos) |-> IrisProtoCube(protos[k])]
    IN IF Len(res) # 1 /\ Len(res) # Len(cs) THEN IrisConcatenate(res) ELSE res

Ok(cs) == [cubes |-> cs, err |-> ""]
Raise(kind) == [cubes |-> <<>>, err |-> kind]

\* CubeList.concatenate_cube(): the single concatenated cube, or ConcatenateError
IrisConcatenateCube(cs) ==
    LET res == IrisConcatenate(cs) IN
    IF Len(res) = 1 THEN Ok(res) ELSE Raise("ConcatenateError")

(***************************************************************************)
(* Time coordinate: num2date and the (year, month, day) of a date.  A day  *)
(* holds PointsPerDay points, so a date forgets the time of day.           *)
(***************************************************************************)
YearMonthDay(t) == t \div PointsPerDay

\* _time.extract_time(cube, start date, end date): the points whose date
\* lies between the two dates, both included
extract_time(cube, start_day, end_day) ==
    [cube EXCEPT !.time = {t \in cube.time :
        start_day <= YearMonthDay(t) /\ YearMonthDay(t) <= end_day}]

(***************************************************************************)
(* _concatenate_overlapping_cubes                                          *)
(***************************************************************************)
\* we arrange [cube1, cube2] so that cube1.start <= cube2.start
arrange(cs) ==
    IF Min(cs[1].time) <= Min(cs[2].time) THEN <<cs[1], cs[2]>> ELSE <<cs[2], cs[1]>>

\* next((num2date(t) for t in time_1.points if t in time_2.points), None)
HasOverlap(time_1, time_2) == time_1 \cap time_2 # {}
start_overlap(time_1, time_2) == Min(time_1 \cap time_2)

\* the comparison of the end points turned round
case_same_start_Shorter(cs) ==
    IF Max(cs[1].time) > Max(cs[2].time) THEN Ok(<<cs[2]>>) ELSE Ok(<<cs[1]>>)

\* case 1: both cubes start at the same time -> return longer cube
case_same_start(cs) ==
    IF Max(cs[1].time) < Max(cs[2].time) THEN Ok(<<cs[2]>>) ELSE Ok(<<cs[1]>>)

\* case 2.1: cube1 ends before cube2 -> use full cube2 and shorten cube1
case_shorten(cs) ==
    LET c1_delta == extract_time(cs[1],
                        YearMonthDay(Min(cs[1].time)),
                        YearMonthDay(start_overlap(cs[1].time, cs[2].time)))
    IN IrisConcatenateCube(<<c1_delta, cs[2]>>)

\* case 2.2: cube1 ends after cube2 -> return cube1
case_contains(cs) == Ok(<<cs[1]>>)

\* without case 0: cubes that share no point are returned as they came
case_later_start_PassThrough(cs) ==
    IF ~HasOverlap(cs[1].time, cs[2].time) THEN Ok(cs)
    ELSE LET data_end_1 == Max(cs[1].time)
             data_end_2 == Max(cs[2].time)
             first == IF data_end_1 <= data_end_2 THEN case_shorten(cs) ELSE Ok(cs)
         IN IF first.err # "" THEN first
            ELSE IF data_end_1 > data_end_2 THEN case_contains(first.cubes)
            ELSE first

\* case 2: cube1 starts before cube2
case_later_start(cs) ==
    IF ~HasOverlap(cs[1].time, cs[2].time) THEN Raise("ValueError")
    ELSE LET data_end_1 == Max(cs[1].time)
             data_end_2 == Max(cs[2].time)
             first == IF data_end_1 <= data_end_2 THEN case_shorten(cs) ELSE Ok(cs)
         IN IF first.err # "" THEN first
            ELSE IF data_end_1 > data_end_2 THEN case_contains(first.cubes)
            ELSE first

concatenate_overlapping_cubes(pair) ==
    LET cs == arrange(pair) IN
    IF Min(cs[1].time) = Min(cs[2].time) THEN case_same_start(cs)
    ELSE case_later_start(cs)

(***************************************************************************)
(* concatenate, one step per statement group of the function               *)
(***************************************************************************)
ConcatAttrs == {[institution |-> Str(<<"a">>)], [institution |-> Str(<<"b">>)]}
ConcatCubes == [time : SUBSET TimePoints, attrs : ConcatAttrs]

ConcatIdle ==
    /\ cpc = "off" /\ cubes = <<>> /\ concatenated = <<>>
    /\ overlapIn = <<>> /\ overlapOut = <<>> /\ ret = <<>> /\ err = ""

ConcatStart ==
    /\ cpc = "start"
    /\ cubes \in SeqsUpTo(ConcatCubes, MaxCubes) /\ cubes # <<>>
    /\ concatenated = <<>> /\ overlapIn = <<>> /\ overlapOut = <<>>
    /\ ret = <<>> /\ err = ""

\* _fix_cube_attributes(cubes)
ConcatFix ==
    /\ cpc = "start"
    /\ cubes' = fix_cube_attributes(cubes)
    /\ cpc' = "fixed"
    /\ UNCHANGED <<concatenated, overlapIn, overlapOut, ret, err>>
    /\ UNCHANGED concatOthers

\* concatenated = iris.cube.CubeList(cubes).concatenate()
ConcatStruct ==
    /\ cpc = "fixed"
    /\ concatenated' = IrisConcatenate(cubes)
    /\ cpc' = "concatenated"
    /\ UNCHANGED <<cubes, overlapIn, overlapOut, ret, err>>
    /\ UNCHANGED concatOthers

\* if len(concatenated) == 2 and both have a time coordinate
NeedsOverlapResolution(cs) == Len(cs) = 2 /\ HasTime(cs[1]) /\ HasTime(cs[2])

\* concatenated = _concatenate_overlapping_cubes(concatenated)
ConcatResolve ==
    /\ cpc = "concatenated"
    /\ NeedsOverlapResolution(concatenated)
    /\ LET out == concatenate_overlapping_cubes(concatenated) IN
       /\ overlapIn' = concatenated
       /\ IF out.err # ""
          THEN /\ err' = out.err
               /\ cpc' = "failed"
               /\ UNCHANGED <<concatenated, overlapOut>>
          ELSE /\ concatenated' = out.cubes
               /\ overlapOut' = out.cubes
               /\ cpc' = "resolved"
               /\ UNCHANGED err
    /\ UNCHANGED <<cubes, ret>>
    /\ UNCHANGED concatOthers

\* the overlap resolution is skipped
ConcatSkipResolve ==
    /\ cpc = "concatenated"
    /\ ~NeedsOverlapResolution(concatenated)
    /\ cpc' = "resolved"
    /\ UNCHANGED <<cubes, concatenated, overlapIn, overlapOut, ret, err>>
    /\ UNCHANGED concatOthers

\* a check that lets the first of several results through
IsSingle_NonEmpty(cs) == Len(cs) >= 1

\* if len(concatenated) == 1
IsSingle(cs) == Len(cs) = 1

\* return concatenated[0]
ConcatReturn ==
    /\ cpc = "resolved"
    /\ IsSingle(concatenated)
    /\ ret' = <<concatenated[1]>>
    /\ cpc' = "returned"
    /\ UNCHANGED <<cubes, concatenated, overlapIn, overlapOut, err>>
    /\ UNCHANGED concatOthers

\* raise ValueError('Can not concatenate cubes.')
ConcatFail ==
    /\ cpc = "resolved"
    /\ ~IsSingle(concatenated)
    /\ err' = "ValueError"
    /\ cpc' = "failed"
    /\ UNCHANGED <<cubes, concatenated, overlapIn, overlapOut, ret>>
    /\ UNCHANGED concatOthers

NextConcat ==
    \/ ConcatFix
    \/ ConcatStruct
    \/ ConcatResolve
    \/ ConcatSkipResolve
    \/ ConcatReturn
    \/ ConcatFail

(***************************************************************************)
(* The attribute unifier run again and again on the same list of cubes     *)
(***************************************************************************)
AttrKeys == {"institution", "missing_value"}
AttrValues == {Str(<<"a">>), Str(<<"b">>), NaN}
AttrMaps == UNION {[ks -> AttrValues] : ks \in SUBSET AttrKeys}
UnifyCubes == [time : {{}}, attrs : AttrMaps]

UnifyIdle == upc = "off" /\ ucubes = <<>> /\ uprev = <<>> /\ uruns = 0

UnifyStart ==
    /\ upc = "on"
    /\ ucubes \in SeqsUpTo(UnifyCubes, MaxUCubes)
    /\ uprev = ucubes
    /\ uruns = 0

\* _fix_cube_attributes(cubes), called on the list it has left behind
FixCubeAttributes ==
    /\ upc = "on"
    /\ uruns < MaxRuns
    /\ uprev' = ucubes
    /\ ucubes' = fix_cube_attributes(ucubes)
    /\ uruns' = uruns + 1
    /\ UNCHANGED upc
    /\ UNCHANGED unifyOthers

NextUnify == FixCubeAttributes

(***************************************************************************)
(* save, called by concurrent branches on one file system.  A directory    *)
(* is the sequence of its components, <<>> being the empty dirname of a    *)
(* bare file name.                                                         *)
(***************************************************************************)
Branches == {1, 2}
Dirnames == {<<>>, <<"out">>, <<"out", "tas">>}
\* every branch writes a file of its own
BaseOf(b) == IF b = 1 THEN "tas_1.nc" ELSE "tas_2.nc"
Filenames == [dir : Dirnames, base : {BaseOf(b) : b \in Branches}]
LazyFlags == SeqsUpTo(BOOLEAN, MaxSaveCubes) \ {<<>>}
OldContent == <<"old">>

\* os.path.dirname(filename)
dirname(filename) == filename.dir

\* os.path.exists(dirname): the empty path does not exist
dir_exists(dirs, d) == d # <<>> /\ d \in dirs

\* os.path.exists(filename)
file_exists(files, filename) == filename \in DOMAIN files

Prefixes(d) == {SubSeq(d, 1, k) : k \in 1..Len(d)}

\* all(cube.has_lazy_data() for cube in cubes)
all_lazy(lazy) == \A i \in 1..Len(lazy) : lazy[i]

\* the skip rule of save
skip_write(files, filename, lazy) == file_exists(files, filename) /\ all_lazy(lazy)

BranchOff == [pc |-> "off", filename |-> [dir |-> <<>>, base |-> ""],
              lazy |-> <<>>, before |-> <<>>, ret |-> <<>>, err |-> ""]

BranchCalls(b) ==
    [pc : {"start"}, filename : [dir : Dirnames, base : {BaseOf(b)}], lazy : LazyFlags,
     before : {<<>>}, ret : {<<>>}, err : {""}]

\* the file systems a call may find: directories closed under parent, and
\* of the files only the targets of the calls, each in a place that exists
FileSystems(targets) ==
    {fs \in [dirs : SUBSET (Dirnames \ {<<>>}), files : SUBSET targets] :
        /\ \A d \in fs.dirs : Prefixes(d) \subseteq fs.dirs
        /\ \A f \in fs.files : f.dir = <<>> \/ f.dir \in fs.dirs}

SaveIdle == fsdirs = {} /\ fsfiles = EmptyMap /\ br = [b \in Branches |-> BranchOff]

SaveStartFs ==
    \E fs \in FileSystems({br[b].filename : b \in {c \in Branches : br[c].pc # "off"}}) :
        /\ fsdirs = fs.dirs
        /\ fsfiles = [f \in fs.files |-> OldContent]

\* several branches call save
SaveStart ==
    /\ \E c1 \in BranchCalls(1), c2 \in BranchCalls(2) : br = <<c1, c2>>
    /\ SaveStartFs

\* one branch calls save
SaveStartSeq ==
    /\ \E c \in BranchCalls(1) : br = <<c, BranchOff>>
    /\ SaveStartFs

\* if not os.path.exists(dirname)
SaveCheckDir(b) ==
    /\ br[b].pc = "start"
    /\ br' = [br EXCEPT ![b].pc =
                IF ~dir_exists(fsdirs, dirname(br[b].filename)) THEN "makedirs" ELSE "check",
              ![b].before = IF file_exists(fsfiles, br[b].filename)
                            THEN <<fsfiles[br[b].filename]>> ELSE <<>>]
    /\ UNCHANGED <<fsdirs, fsfiles>>
    /\ UNCHANGED saveOthers

\* os.makedirs(name): "" is no such file, an existing leaf is FileExistsError
makedirs_error(dirs, d) ==
    IF d = <<>> THEN "FileNotFoundError"
    ELSE IF d \in dirs THEN "FileExistsError"
    ELSE ""

\* os.makedirs(dirname)
SaveMakedirs(b) ==
    /\ br[b].pc = "makedirs"
    /\ LET d == dirname(br[b].filename)
           e == makedirs_error(fsdirs, d)
       IN IF e # ""
          THEN /\ br' = [br EXCEPT ![b].pc = "failed", ![b].err = e]
               /\ UNCHANGED fsdirs
          ELSE /\ fsdirs' = fsdirs \cup Prefixes(d)
               /\ br' = [br EXCEPT ![b].pc = "check"]
    /\ UNCHANGED fsfiles
    /\ UNCHANGED saveOthers

\* if os.path.exists(filename) and all lazy: return filename
SaveSkip(b) ==
    /\ br[b].pc = "check"
    /\ skip_write(fsfiles, br[b].filename, br[b].lazy)
    /\ br' = [br EXCEPT ![b].pc = "returned", ![b].ret = <<br[b].filename>>]
    /\ UNCHANGED <<fsdirs, fsfiles>>
    /\ UNCHANGED saveOthers

\* otherwise the chunk sizes and the fill value are set
SaveDecideWrite(b) ==
    /\ br[b].pc = "check"
    /\ ~skip_write(fsfiles, br[b].filename, br[b].lazy)
    /\ br' = [br EXCEPT ![b].pc = "write"]
    /\ UNCHANGED <<fsdirs, fsfiles>>
    /\ UNCHANGED saveOthers

\* iris.save(cubes, **kwargs); return filename
SaveWrite(b) ==
    /\ br[b].pc = "write"
    /\ fsfiles' = [f \in DOMAIN fsfiles \cup {br[b].filename} |->
                     IF f = br[b].filename THEN <<"saved", b, br[b].lazy>> ELSE fsfiles[f]]
    /\ br' = [br EXCEPT ![b].pc = "returned", ![b].ret = <<br[b].filename>>]
    /\ UNCHANGED fsdirs
    /\ UNCHANGED saveOthers

NextSave ==
    \/ \E b \in Branches : SaveCheckDir(b)
    \/ \E b \in Branches : SaveMakedirs(b)
    \/ \E b \in Branches : SaveSkip(b)
    \/ \E b \in Branches : SaveDecideWrite(b)
    \/ \E b \in Branches : SaveWrite(b)

(***************************************************************************)
(* write_metadata.  A product is [filename, attributes], its filename      *)
(* [dir, name]; an OrderedDict is the sequence of its <<key, value>>       *)
(* entries.  A string that '-'.join builds is the sequence of its parts.   *)
(***************************************************************************)
DefaultIndex == 1000000
DATASET_KEYS == {"mip"}
VARIABLE_KEYS == {"reference_dataset", "alternative_dataset"}

OutputDirs == {"A", "B"}
ShortNameOf(dir) == IF dir = "A" THEN "tas" ELSE "pr"
ExpStr(parts) == [kind |-> "str", comps |-> parts]
ExpList(parts) == [kind |-> "list", comps |-> parts]
\* the products of directory A come from a list of experiments
ExpOf(dir) ==
    IF dir = "A" THEN ExpList(<<"historical", "rcp85">>) ELSE ExpStr(<<"historical">>)

\* p.attributes.get(key, default)
get(attributes, key, default) ==
    IF key \in DOMAIN attributes THEN attributes[key] ELSE default

\* the order of Python's str comparison on the data set names of the model
str_rank(name) == CASE name = "" -> 0 [] name = "a" -> 1 [] OTHER -> 2

\* a sort key whose missing index sorts first
sort_key_DefaultZero(p) ==
    <<get(p.attributes, "recipe_dataset_index", 0),
      str_rank(get(p.attributes, "dataset", ""))>>

\* the sort key (recipe_dataset_index or 1e6, dataset or '')
sort_key(p) ==
    <<get(p.attributes, "recipe_dataset_index", DefaultIndex),
      str_rank(get(p.attributes, "dataset", ""))>>

\* tuple comparison k1 <= k2
key_le(k1, k2) == k1[1] < k2[1] \/ (k1[1] = k2[1] /\ k1[2] <= k2[2])

\* sorted(prods, key=...): stable, an element goes after those whose key is <= its own
RECURSIVE sorted(_)
sorted(prods) ==
    IF prods = <<>> THEN <<>>
    ELSE LET n == Len(prods)
             front == sorted(SubSeq(prods, 1, n - 1))
             last == prods[n]
             keep == {i \in 1..Len(front) : key_le(sort_key(front[i]), sort_key(last))}
             pos == IF keep = {} THEN 0 ELSE Max(keep)
         IN SubSeq(front, 1, pos) \o <<last>> \o SubSeq(front, pos + 1, Len(front))

\* os.path.dirname(p.filename)
output_dir(p) == p.filename.dir

\* itertools.groupby(products, dirname): the first run of adjacent products
\* of one directory ends at this index
first_group_end(prods) ==
    Min({i \in 1..Len(prods) :
            i = Len(prods) \/ output_dir(prods[i + 1]) # output_dir(prods[1])})

\* isinstance(exp, (list, tuple)): exp = '-'.join(exp)
normalise_exp(p) ==
    IF "exp" \in DOMAIN p.attributes /\ p.attributes["exp"].kind = "list"
    THEN [p EXCEPT !.attributes["exp"] = ExpStr(p.attributes["exp"].comps)]
    ELSE p

\* metadata[key] = value on an OrderedDict
od_set(od, key, value) ==
    IF \E i \in 1..Len(od) : od[i][1] = key
    THEN [i \in 1..Len(od) |-> IF od[i][1] = key THEN <<key, value>> ELSE od[i]]
    ELSE Append(od, <<key, value>>)

RECURSIVE build_metadata(_, _, _)
build_metadata(prods, i, od) ==
    IF i > Len(prods) THEN od
    ELSE build_metadata(prods, i + 1,
            od_set(od, prods[i].filename, normalise_exp(prods[i]).attributes))

\* _write_ncl_metadata: the keys of one variable that go to dataset_info
dataset_keys_of(variable, variables) ==
    {key \in DOMAIN variable :
        /\ \/ \E j \in 1..Len(variables) :
                 key \notin DOMAIN variables[j] \/ variables[j][key] # variable[key]
           \/ key \in DATASET_KEYS
        /\ key \notin VARIABLE_KEYS}

\* _write_ncl_metadata: variable_info, the last value of every key that is
\* not a data set key
variable_info_keys(variables) ==
    UNION {DOMAIN variables[i] \ dataset_keys_of(variables[i], variables) :
                i \in 1..Len(variables)}

variable_info_value(variables, key) ==
    variables[Max({i \in 1..Len(variables) :
        key \in DOMAIN variables[i] \ dataset_keys_of(variables[i], variables)})][key]

\* _write_ncl_metadata: the file it writes, <<>> when variable_info holds no
\* short_name (KeyError)
ncl_filename(dir, metadata) ==
    LET variables == [i \in 1..Len(metadata) |-> metadata[i][2]] IN
    IF "short_name" \in variable_info_keys(variables)
    THEN <<[dir |-> dir,
            name |-> <<variable_info_value(variables, "short_name"), "_info.ncl">>]>>
    ELSE <<>>

\* the state of write_metadata after the groups of prods: the products as
\* left behind, the manifests written and the files named
RECURSIVE write_groups(_, _)
write_groups(prods, st) ==
    IF prods = <<>> \/ st.err # "" THEN st
    ELSE LET e == first_group_end(prods)
             group == SubSeq(prods, 1, e)
             dir == output_dir(prods[1])
             sorted_products == sorted(group)
             metadata == build_metadata(sorted_products, 1, <<>>)
             output_filename == [dir |-> dir, name |-> <<"metadata.yml">>]
             ncl == ncl_filename(dir, metadata)
             st1 == [st EXCEPT
                       !.products = @ \o [i \in 1..e |-> normalise_exp(group[i])],
                       !.manifests = [f \in DOMAIN @ \cup {output_filename} |->
                                        IF f = output_filename THEN metadata ELSE @[f]],
                       !.writes = Append(@, output_filename),
                       !.output_files = Append(@, output_filename)]
             st2 == IF ~st.write_ncl THEN st1
                    ELSE IF ncl = <<>> THEN [st1 EXCEPT !.err = "KeyError"]
                    ELSE [st1 EXCEPT !.nclfiles = @ \cup {ncl[1]},
                                     !.output_files = Append(@, ncl[1])]
         IN write_groups(SubSeq(prods, e + 1, Len(prods)), st2)

ProductAttributes(dir, index, dataset, exp) ==
    [k \in {"short_name", "exp"}
            \cup (IF index # 0 THEN {"recipe_dataset_index"} ELSE {})
            \cup (IF dataset # "" THEN {"dataset"} ELSE {}) |->
        CASE k = "short_name" -> ShortNameOf(dir)
          [] k = "exp" -> exp
          [] k = "recipe_dataset_index" -> index
          [] OTHER -> dataset]

\* the products a caller may pass: the i-th one is file p<i> of its directory
ProductChoices == [dir : OutputDirs, index : 0..2, dataset : {"", "a"}]

MakeProducts(c) ==
    [i \in 1..Len(c) |->
        [filename |-> [dir |-> c[i].dir, name |-> <<"p", ToString(i)>>],
         attributes |-> ProductAttributes(c[i].dir, c[i].index, c[i].dataset, ExpOf(c[i].dir))]]

MetaIdle ==
    /\ mpc = "off" /\ products = <<>> /\ write_ncl = FALSE /\ manifests = EmptyMap
    /\ mwrites = <<>> /\ nclfiles = {} /\ output_files = <<>>

MetaStart ==
    /\ mpc = "start"
    /\ \E n \in 0..MaxProducts : \E c \in [1..n -> ProductChoices] :
          products = MakeProducts(c)
    /\ write_ncl \in BOOLEAN
    /\ manifests = EmptyMap /\ mwrites = <<>> /\ nclfiles = {} /\ output_files = <<>>

\* write_metadata(products, write_ncl)
WriteMetadata ==
    /\ mpc = "start"
    /\ \E st \in {write_groups(products,
                    [products |-> <<>>, manifests |-> EmptyMap, writes |-> <<>>,
                     nclfiles |-> {}, output_files |-> <<>>, err |-> "",
                     write_ncl |-> write_ncl])} :
          /\ products' = st.products \o SubSeq(products, Len(st.products) + 1, Len(products))
          /\ manifests' = st.manifests
          /\ mwrites' = st.writes
          /\ nclfiles' = st.nclfiles
          /\ output_files' = IF st.err = "" THEN st.output_files ELSE <<>>
          /\ mpc' = IF st.err = "" THEN "returned" ELSE "failed"
    /\ UNCHANGED write_ncl
    /\ UNCHANGED metaOthers

NextMeta == WriteMetadata

(***************************************************************************)
(* load.  A raw cube is [attributes, lon_units, file_lon_units]: the names *)
(* of its attributes other than source_file, the value of source_file      *)
(* (<<>> when unset), the units the library gave its longitude and the     *)
(* units the file declares for it ("" when none).                          *)
(***************************************************************************)
LoadFiles == {"f1.nc", "f2.nc"}
VolatileAttributes == {"creation_date", "tracking_id", "history"}
RawCubes ==
    [attributes : SUBSET {"creation_date", "history", "title"},
     source_file : {<<>>},
     lon_units : {"degrees"},
     file_lon_units : {"", "degrees_east"}]

\* concatenate_callback(raw_cube, field, _)
concatenate_callback(raw_cube) ==
    [raw_cube EXCEPT
        !.attributes = @ \ VolatileAttributes,
        !.lon_units = IF raw_cube.file_lon_units # "" THEN raw_cube.file_lon_units ELSE @]

\* iris.load_raw(file, callback=callback)
load_raw(raw, callback) ==
    [i \in 1..Len(raw) |->
        IF callback = "concatenate_callback" THEN concatenate_callback(raw[i]) ELSE raw[i]]

\* the exception load raises when the file holds no cube
LoadFailure == "Exception"

\* load(file, callback): what it returns, or the exception it raises
load(file, raw, callback) ==
    LET raw_cubes == load_raw(raw, callback) IN
    IF raw_cubes = <<>> THEN [cubes |-> <<>>, err |-> LoadFailure]
    ELSE [cubes |-> [i \in 1..Len(raw_cubes) |->
                        [raw_cubes[i] EXCEPT !.source_file = <<file>>]],
          err |-> ""]

LoadIdle ==
    /\ lpc = "off" /\ lfile = "" /\ lraw = <<>> /\ lcallback = "None"
    /\ lret = <<>> /\ lerr = ""

LoadStart ==
    /\ lpc = "start"
    /\ lfile \in LoadFiles
    /\ lraw \in SeqsUpTo(RawCubes, MaxRaw)
    /\ lcallback \in {"None", "concatenate_callback"}
    /\ lret = <<>> /\ lerr = ""

\* load returns the cubes
LoadReturn ==
    /\ lpc = "start"
    /\ load(lfile, lraw, lcallback).err = ""
    /\ lret' = load(lfile, lraw, lcallback).cubes
    /\ lpc' = "returned"
    /\ UNCHANGED <<lfile, lraw, lcallback, lerr>>
    /\ UNCHANGED loadOthers

\* load raises
LoadRaise ==
    /\ lpc = "start"
    /\ load(lfile, lraw, lcallback).err # ""
    /\ lerr' = load(lfile, lraw, lcallback).err
    /\ lpc' = "failed"
    /\ UNCHANGED <<lfile, lraw, lcallback, lret>>
    /\ UNCHANGED loadOthers

NextLoad == LoadReturn \/ LoadRaise

(***************************************************************************)
(* Specifications: one per operation.                                      *)
(***************************************************************************)
InitConcat == ConcatStart /\ UnifyIdle /\ SaveIdle /\ MetaIdle /\ LoadIdle
InitUnify == ConcatIdle /\ UnifyStart /\ SaveIdle /\ MetaIdle /\ LoadIdle
InitSave == ConcatIdle /\ UnifyIdle /\ SaveStart /\ MetaIdle /\ LoadIdle
InitSaveSeq == ConcatIdle /\ UnifyIdle /\ SaveStartSeq /\ MetaIdle /\ LoadIdle
InitMeta == ConcatIdle /\ UnifyIdle /\ SaveIdle /\ MetaStart /\ LoadIdle
InitLoad == ConcatIdle /\ UnifyIdle /\ SaveIdle /\ MetaIdle /\ LoadStart

SpecConcat == InitConcat /\ [][NextConcat]_vars
SpecUnify == InitUnify /\ [][NextUnify]_vars
SpecSave == InitSave /\ [][NextSave]_vars
SpecSaveSeq == InitSaveSeq /\ [][NextSave]_vars
SpecMeta == InitMeta /\ [][NextMeta]_vars
SpecLoad == InitLoad /\ [][NextLoad]_vars

Init == InitConcat \/ InitUnify \/ InitSave \/ InitMeta \/ InitLoad
Next == NextConcat \/ NextUnify \/ NextSave \/ NextMeta \/ NextLoad
Spec == Init /\ [][Next]_vars

(***************************************************************************)
(* Properties                                                              *)
(***************************************************************************)
\* the exceptions with which a concatenation fails: the ValueError of
\* concatenate and of the overlap resolution, and the library's
\* ConcatenateError that the overlap resolution re-raises
ConcatenationError == {"ValueError", "ConcatenateError"}

ConcatDone == cpc \in {"returned", "failed"}

\* C1: concatenate returns exactly one fragment or fails with a
\* ConcatenationError; it returns nothing else, and a result list whose
\* length is not 1 makes it fail.
C1_OneFragmentOrError ==
    /\ cpc = "returned" => Len(ret) = 1 /\ err = "" /\ concatenated = ret
    /\ cpc = "failed" => ret = <<>> /\ err \in ConcatenationError
    /\ ConcatDone /\ Len(concatenated) # 1 => cpc = "failed"
    /\ ConcatDone /\ overlapIn = <<>> /\ Len(concatenated) # 1 => err = "ValueError"

\* concatenate has failed on a result list of two cubes that the overlap
\* resolution never saw
C1_Witness ==
    /\ cpc = "failed" /\ err = "ValueError"
    /\ Len(concatenated) = 2 /\ overlapIn = <<>>

\* C2: when the overlap resolution returns a result, every time point of
\* either of its two inputs is a time point of the fragment it returns.
C2_NoPointDropped ==
    overlapOut # <<>> =>
        /\ Len(overlapOut) = 1
        /\ overlapIn[1].time \cup overlapIn[2].time \subseteq overlapOut[1].time

\* the input is fragment A and fragment B: A starts strictly earlier, B starts
\* at a point of A and ends no earlier than A
ContiguousOverlap(a, b) ==
    /\ HasTime(a) /\ HasTime(b)
    /\ Min(a.time) < Min(b.time)
    /\ Min(b.time) \in a.time
    /\ Max(a.time) <= Max(b.time)

\* C3: two fragments that overlap contiguously are concatenated into one
\* fragment whose time points are the union of both, each once.
C3_ContiguousOverlapJoined ==
    ConcatDone /\ Len(cubes) = 2
    /\ (ContiguousOverlap(cubes[1], cubes[2]) \/ ContiguousOverlap(cubes[2], cubes[1])) =>
        /\ cpc = "returned"
        /\ ret[1].time = cubes[1].time \cup cubes[2].time

\* two time-bearing fragments with different start times that share no point
SeparatedInTime(a, b) ==
    /\ HasTime(a) /\ HasTime(b)
    /\ Min(a.time) # Min(b.time)
    /\ a.time \cap b.time = {}

\* their extents interleave: neither ends before the other starts
Interleaved(a, b) == ~(Max(a.time) < Min(b.time) \/ Max(b.time) < Min(a.time))

C5_UnifyIdempotent ==
    uruns >= 2 => ucubes = uprev

\* the one save call has ended
SaveDone(b) == br[b].pc \in {"returned", "failed"}

\* no cube of the list carries a NaN attribute
NoNaN(cs) == \A i \in 1..Len(cs) : \A k \in DOMAIN cs[i].attrs : cs[i].attrs[k] # NaN

\* the unifier is idempotent on the lists in which it meets no NaN
UnifyIdempotentWithoutNaN ==
    uruns >= 2 /\ NoNaN(uprev) => ucubes = uprev

\* C6: save returns the target path; when the target existed and every
\* fragment was lazy the file is as it was, in every other case the file
\* holds what this call wrote.
C6_SkipOrWrite ==
    SaveDone(1) =>
        /\ br[1].pc = "returned"
        /\ br[1].ret = <<br[1].filename>>
        /\ IF br[1].before # <<>> /\ all_lazy(br[1].lazy)
           THEN fsfiles[br[1].filename] = br[1].before[1]
           ELSE fsfiles[br[1].filename] = <<"saved", 1, br[1].lazy>>

\* the skip rule holds of the one call whose target has a directory part
SkipOrWriteWithDirectory ==
    SaveDone(1) /\ dirname(br[1].filename) # <<>> =>
        /\ br[1].pc = "returned"
        /\ br[1].ret = <<br[1].filename>>
        /\ IF br[1].before # <<>> /\ all_lazy(br[1].lazy)
           THEN fsfiles[br[1].filename] = br[1].before[1]
           ELSE fsfiles[br[1].filename] = <<"saved", 1, br[1].lazy>>

\* C7: no branch fails because another branch created its directory between
\* its existence check and its creation call.
C7_DirectoryRaceTolerated ==
    \A b \in Branches : br[b].err # "FileExistsError"

\* the directories of a list of products
DirsOf(prods) == {output_dir(prods[i]) : i \in 1..Len(prods)}

\* the products of one directory are adjacent in the list
Grouped(prods) ==
    \A i, j, k \in 1..Len(prods) :
        i < j /\ j < k /\ output_dir(prods[i]) = output_dir(prods[k]) =>
            output_dir(prods[j]) = output_dir(prods[i])

ManifestOf(dir) == manifests[[dir |-> dir, name |-> <<"metadata.yml">>]]

\* the order of two manifest entries, read off their attribute maps
EntryIndex(entry) ==
    IF "recipe_dataset_index" \in DOMAIN entry[2]
    THEN entry[2]["recipe_dataset_index"] ELSE 1000000

EntryDataset(entry) ==
    str_rank(IF "dataset" \in DOMAIN entry[2] THEN entry[2]["dataset"] ELSE "")

InOrder(e1, e2) ==
    \/ EntryIndex(e1) < EntryIndex(e2)
    \/ EntryIndex(e1) = EntryIndex(e2) /\ EntryDataset(e1) <= EntryDataset(e2)

\* C8: for products grouped by directory, write_metadata writes one
\* metadata.yml per directory, each holding exactly the products of its
\* directory, ordered by (recipe_dataset_index or 1e6, dataset or '').
C8_OneOrderedManifestPerDirectory ==
    mpc = "returned" /\ Grouped(products) =>
        /\ Len(mwrites) = Cardinality(DirsOf(products))
        /\ {mwrites[i] : i \in 1..Len(mwrites)} =
              {[dir |-> d, name |-> <<"metadata.yml">>] : d \in DirsOf(products)}
        /\ DOMAIN manifests = {mwrites[i] : i \in 1..Len(mwrites)}
        /\ \A d \in DirsOf(products) :
              LET m == ManifestOf(d)
                  mine == {i \in 1..Len(products) : output_dir(products[i]) = d}
              IN /\ Len(m) = Cardinality(mine)
                 /\ {m[i] : i \in 1..Len(m)} =
                       {<<products[i].filename, products[i].attributes>> : i \in mine}
                 /\ \A i, j \in 1..Len(m) : i < j => InOrder(m[i], m[j])

\* two directories, and in one of them a product of index 2 was passed
\* before a product of index 1
C8_Witness ==
    /\ mpc = "returned" /\ Grouped(products)
    /\ Cardinality(DirsOf(products)) = 2
    /\ \E i, j \in 1..Len(products) :
          /\ i < j /\ output_dir(products[i]) = output_dir(products[j])
          /\ get(products[i].attributes, "recipe_dataset_index", 0) = 2
          /\ get(products[j].attributes, "recipe_dataset_index", 0) = 1
    /\ \E i \in 1..Len(products) : "recipe_dataset_index" \notin DOMAIN products[i].attributes

\* C9: load returns a non-empty list whose cubes all carry the path as
\* source_file, or fails with a LoadError when the file holds no cube.
C9_LoadErrorOnEmpty ==
    /\ lpc = "returned" =>
          /\ lret # <<>>
          /\ \A i \in 1..Len(lret) : lret[i].source_file = <<lfile>>
    /\ lpc = "failed" => lraw = <<>> /\ lerr = "LoadError"
    /\ lpc \in {"returned", "failed"} => (lpc = "failed" <=> lraw = <<>>)

\* the earlier-starting of two cubes
Earlier(a, b) == IF Min(a.time) <= Min(b.time) THEN a ELSE b
Later(a, b) == IF Min(a.time) <= Min(b.time) THEN b ELSE a

\* C10: when the overlap resolution judges one input to contain the other
\* (equal starts: the one that ends later; different starts with a shared
\* point: the earlier-starting one if it ends strictly later), it returns
\* exactly that input, alone and unchanged.
C10_ContainingFragmentReturned ==
    overlapIn # <<>> =>
        LET a == overlapIn[1]
            b == overlapIn[2]
            e == Earlier(a, b)
            l == Later(a, b)
        IN /\ Min(a.time) = Min(b.time) /\ Max(a.time) < Max(b.time) =>
                 cpc # "failed" /\ err = "" /\ overlapOut = <<b>>
           /\ Min(a.time) = Min(b.time) /\ Max(b.time) < Max(a.time) =>
                 cpc # "failed" /\ err = "" /\ overlapOut = <<a>>
           /\ Min(a.time) = Min(b.time) /\ Max(a.time) = Max(b.time) =>
                 cpc # "failed" /\ err = "" /\ overlapOut \in {<<a>>, <<b>>}
           /\ Min(a.time) # Min(b.time) /\ a.time \cap b.time # {}
                 /\ Max(e.time) > Max(l.time) =>
                 cpc # "failed" /\ err = "" /\ overlapOut = <<e>>

\* equal starts, the second fragment ends later and is what came back
C10_Witness ==
    /\ overlapIn # <<>>
    /\ Min(overlapIn[1].time) = Min(overlapIn[2].time)
    /\ Max(overlapIn[1].time) < Max(overlapIn[2].time)
    /\ overlapOut = <<overlapIn[2]>>

====
